---- MODULE Spec2Model ----
(***************************************************************************)
(* Model of StableEvaluationAtAPoint (stableevaluationatapoint.h):         *)
(* the kernel G / gradG, the boundary potentials PSL / PDL, the cutoff     *)
(* function Psi, the volume functional Jstar and the driver                *)
(* stab_pointEval.                                                         *)
(*                                                                         *)
(* Number representation.  Points are pairs of integers in units of        *)
(* 1/Unit, so <<Unit, Unit>> is the corner (1,1) of the unit square.       *)
(* Mesh vertices are multiples of 6 grid units, which makes every edge     *)
(* midpoint 0.5*(a+b) and every cell barycentre (a+b+c)/3 an exact grid    *)
(* point.  Comparisons of norms against 0.25, 0.25*sqrt(2) and 0.5 are     *)
(* done exactly on squared norms.  The trigonometric part of Psi is        *)
(* computed in fixed point with FP units per 1.0.  std::log is kept as a   *)
(* term: the value of G is a record naming the coefficient and the         *)
(* squared norm the logarithm is taken of.  A sum accumulated by           *)
(* `val += t` is the bag of its non-zero terms (adding 0.0 changes         *)
(* nothing, and a bag forgets the order of the additions).                 *)
(***************************************************************************)
EXTENDS Integers, FiniteSets, Sequences, Bags, TLC

(* ------------------------------ bounds -------------------------------- *)

\* number of vertex positions per side of the unit square, minus one
GridN == 4

\* fixed-point units per 1.0 in the trigonometric part of Psi
FP == 1000

\* largest leftover value an uninitialized double is drawn from (0..MaxGarbage)
MaxGarbage == 1

(* ----------------------------- geometry ------------------------------- *)

\* grid units per 1.0
Unit == 6 * GridN

V(i, j) == <<6 * i, 6 * j>>

half == <<Unit \div 2, Unit \div 2>>

Sub(a, b) == <<a[1] - b[1], a[2] - b[2]>>

Dot(a, b) == a[1] * b[1] + a[2] * b[2]

\* squaredNorm of a vector, the square of Eigen's norm()
NormSq(a) == Dot(a, a)

Abs(n) == IF n < 0 THEN -n ELSE n

\* division of a signed number by a positive one, rounding toward zero
Quot(a, b) == IF a >= 0 THEN a \div b ELSE -((-a) \div b)

RECURSIVE ISqrtBetween(_, _, _)
ISqrtBetween(n, lo, hi) ==
  IF lo >= hi THEN lo
  ELSE LET mid == (lo + hi + 1) \div 2
       IN IF mid * mid <= n THEN ISqrtBetween(n, mid, hi)
                            ELSE ISqrtBetween(n, lo, mid - 1)

\* floor of the square root
ISqrt(n) == ISqrtBetween(n, 0, 46340)

(* ------------------------------- meshes -------------------------------- *)

Corners4 == {<<0, 0>>, <<Unit, 0>>, <<Unit, Unit>>, <<0, Unit>>}

\* position of a perimeter point along the boundary, counter-clockwise from (0,0)
PerimParam(p) ==
  IF p[2] = 0 /\ p[1] < Unit THEN p[1]
  ELSE IF p[1] = Unit /\ p[2] < Unit THEN Unit + p[2]
  ELSE IF p[2] = Unit /\ p[1] > 0 THEN 2 * Unit + (Unit - p[1])
  ELSE 3 * Unit + (Unit - p[2])

\* the next boundary vertex after b, counter-clockwise
BdSucc(b, B) ==
  LET later == {c \in B : PerimParam(c) > PerimParam(b)}
      pool == IF later = {} THEN B ELSE later
  IN CHOOSE c \in pool : \A d \in pool : PerimParam(c) <= PerimParam(d)

\* triangulation of the unit square by the triangles (b, next b, p)
FanMesh(p, extra) ==
  LET B == Corners4 \cup extra
  IN [cells |-> {{b, BdSucc(b, B), p} : b \in B}]

\* the unit square cut along the diagonal (0,0)-(1,1)
TwoTriaMesh ==
  [cells |-> {{<<0, 0>>, <<Unit, 0>>, <<Unit, Unit>>},
              {<<0, 0>>, <<Unit, Unit>>, <<0, Unit>>}}]

InteriorVertices == {V(GridN \div 2, GridN \div 2), V(1, 1)}

ExtraBoundaryVertices == {{}, {V(1, 0)}}

Meshes ==
  {TwoTriaMesh} \cup
  {FanMesh(p, extra) : p \in InteriorVertices, extra \in ExtraBoundaryVertices}

\* mesh->Entities(0): the cells; mesh->Entities(1): the edges
Entities(m, codim) ==
  IF codim = 0 THEN m.cells
  ELSE UNION {{e \in SUBSET c : Cardinality(e) = 2} : c \in m.cells}

\* a flag that is set for every edge
flagEntitiesOnBoundary_all(m, e) == TRUE

\* lf::mesh::utils::flagEntitiesOnBoundary(mesh, 1): an edge is on the
\* boundary iff exactly one cell is adjacent to it
flagEntitiesOnBoundary(m, e) ==
  Cardinality({c \in m.cells : e \subseteq c}) = 1

\* 0.5 * (corners.col(0) + corners.col(1))
Midpoint(e) ==
  LET a == CHOOSE p \in e : TRUE
      b == CHOOSE p \in e : p # a
  IN <<(a[1] + b[1]) \div 2, (a[2] + b[2]) \div 2>>

\* lf::geometry::Volume of an edge: its length, in grid units
Volume(e) ==
  LET a == CHOOSE p \in e : TRUE
      b == CHOOSE p \in e : p # a
  IN ISqrt(NormSq(Sub(a, b)))

\* make_TriaQR_MidpointRule: one point, the barycentre (1/3,1/3), weight 1/2
QuadWeight == <<1, 2>>

\* geo.Global(zeta_ref) for the single reference point (1/3,1/3)
Global(c) ==
  LET a == CHOOSE p \in c : TRUE
      b == CHOOSE p \in c \ {a} : TRUE
      d == CHOOSE p \in c \ {a, b} : TRUE
  IN <<(a[1] + b[1] + d[1]) \div 3, (a[2] + b[2] + d[2]) \div 3>>

\* geo.IntegrationElement: |det| of the affine map, in grid units squared
IntegrationElement(c) ==
  LET a == CHOOSE p \in c : TRUE
      b == CHOOSE p \in c \ {a} : TRUE
      d == CHOOSE p \in c \ {a, b} : TRUE
      u1 == Sub(b, a)
      u2 == Sub(d, a)
  IN Abs(u1[1] * u2[2] - u1[2] * u2[1])

(* ------------------------------- kernel -------------------------------- *)

\* res = (-1.0/(2*M_PI)) * std::log((x-y).norm()), for x # y:
\* coefficient -1/(2 pi), logarithm of the norm whose square is logNormSq
G(x, y) == [coefNum |-> -1, logNormSq |-> NormSq(Sub(x, y))]

\* res = (-1.0/(2*M_PI * (x-y).norm())) * (x - y), for x # y:
\* the vector vec times -1/(2 pi d), where d*d = denSq (grid units squared)
gradG(x, y) ==
  [coefNum |-> -1, denSq |-> NormSq(Sub(x, y)), vec |-> Sub(x, y)]

(* --------------------------- cutoff function --------------------------- *)

\* std::sqrt(2), fixed point
Sqrt2F == ISqrt(2 * FP * FP)

\* M_PI, fixed point
PiF == (355 * FP) \div 113

\* double constant = M_PI/(0.5*std::sqrt(2) - 1.0), fixed point (negative)
constant == -((PiF * FP) \div (FP - Sqrt2F \div 2))

\* (y - half).norm(), fixed point
normF(y) == ISqrt(NormSq(Sub(y, half)) * FP * FP) \div Unit

\* the inner zone with radius 0.25 in place of 0.25*std::sqrt(2)
InInnerZone_quarter(y) == 16 * NormSq(Sub(y, half)) <= Unit * Unit

\* (y - half).norm() <= 0.25*std::sqrt(2), compared exactly on the squares
InInnerZone(y) == 8 * NormSq(Sub(y, half)) <= Unit * Unit

\* (y - half).norm() >= 0.5, compared exactly on the squares
InOuterZone(y) == 4 * NormSq(Sub(y, half)) >= Unit * Unit

\* constant * ((y - half).norm() - 0.5), fixed point
PsiArg(y) == Quot(constant * (normF(y) - FP \div 2), FP)

\* std::cos on [0, pi/2], fixed point, by its Taylor polynomial
CosF(a) ==
  LET a2 == (a * a) \div FP
      a4 == (a2 * a2) \div FP
      a6 == (a4 * a2) \div FP
      a8 == (a6 * a2) \div FP
  IN FP - a2 \div 2 + a4 \div 24 - a6 \div 720 + a8 \div 40320

\* std::sin on [0, pi/2], fixed point, by its Taylor polynomial
SinF(a) ==
  LET a2 == (a * a) \div FP
      a3 == (a2 * a) \div FP
      a5 == (a3 * a2) \div FP
      a7 == (a5 * a2) \div FP
  IN a - a3 \div 6 + a5 \div 120 - a7 \div 5040

\* the zone of Psi the point y falls in, by the order of the branches
PsiZone(y) ==
  IF InInnerZone(y) THEN "inner"
  ELSE IF InOuterZone(y) THEN "outer"
  ELSE "annulus"

\* the annulus branch of Psi: value, gradient and Laplacian, fixed point
PsiAnnulus(y) ==
  LET d == Sub(y, half)
      n == normF(y)
      co == CosF(PsiArg(y))
      si == SinF(PsiArg(y))
      \* 2 * cos * (-1.0) * sin * constant * (1.0 / norm)
      s == Quot(Quot(Quot(2 * co * (-1) * si, FP) * constant, FP) * FP, n)
      \* 2 * constant * constant * (1.0 / (norm * norm)) * (y-half).dot(y-half)
      c2 == (constant * constant) \div FP
      nn == (n * n) \div FP
      dotF == (NormSq(d) * FP) \div (Unit * Unit)
      b == Quot(Quot(2 * c2 * FP, nn) * dotF, FP)
      t1 == Quot(b * Quot(si * si - co * co, FP), FP)
      \* 2 * constant * (1.0 / norm) * cos * sin
      t2 == Quot(Quot(2 * constant * FP, n) * Quot(co * si, FP), FP)
  IN [Psi_xy |-> (co * co) \div FP,
      gradPsi |-> <<Quot(s * d[1], Unit), Quot(s * d[2], Unit)>>,
      laplPsi |-> t1 - t2]

\* Psi(y, gradPsi, laplPsi): the returned value Psi_xy and the values of the
\* parameters gradPsi and laplPsi (Psi's own copies) when Psi returns
Psi(y, gradPsi, laplPsi) ==
  IF PsiZone(y) = "inner"
    THEN [Psi_xy |-> 0, gradPsi |-> <<0, 0>>, laplPsi |-> 0]
  ELSE IF PsiZone(y) = "outer"
    THEN [Psi_xy |-> FP, gradPsi |-> <<0, 0>>, laplPsi |-> 0]
  ELSE PsiAnnulus(y)

(* ------------------------ functors and normals ------------------------- *)

\* PDL's choice with the first two normals exchanged
PDL_n_swapped(midpoint) ==
  IF midpoint[1] > midpoint[2] /\ midpoint[1] < Unit - midpoint[2]
    THEN <<1, 0>>
  ELSE IF midpoint[1] > midpoint[2] /\ midpoint[1] > Unit - midpoint[2]
    THEN <<0, -1>>
  ELSE IF midpoint[1] < midpoint[2] /\ midpoint[1] > Unit - midpoint[2]
    THEN <<0, 1>>
  ELSE <<-1, 0>>

\* the normal vector n chosen in PDL from the edge midpoint
PDL_n(midpoint) ==
  IF midpoint[1] > midpoint[2] /\ midpoint[1] < Unit - midpoint[2]
    THEN <<0, -1>>
  ELSE IF midpoint[1] > midpoint[2] /\ midpoint[1] > Unit - midpoint[2]
    THEN <<1, 0>>
  ELSE IF midpoint[1] < midpoint[2] /\ midpoint[1] > Unit - midpoint[2]
    THEN <<0, 1>>
  ELSE <<-1, 0>>

\* the normal vector n chosen in pointEval's functor dotgradu_n
dotgradu_n_n(p) ==
  IF p[1] > p[2] /\ p[1] < Unit - p[2]
    THEN <<0, -1>>
  ELSE IF p[1] > p[2] /\ p[1] > Unit - p[2]
    THEN <<1, 0>>
  ELSE IF p[1] < p[2] /\ p[1] > Unit - p[2]
    THEN <<0, 1>>
  ELSE <<-1, 0>>

\* gradu(x).dot(n) with gradu(x) = (x + one)/(x + one).norm(), one = (1,0):
\* the number num / sqrt(denSq)
dotgradu_n(p) ==
  LET q == <<p[1] + Unit, p[2]>>
  IN [num |-> Dot(q, dotgradu_n_n(p)), denSq |-> NormSq(q)]

Functors == {"zero", "one", "coord", "dotgradu_n"}

\* the value v(p) of the functor named fn, as the number num / sqrt(denSq)
Apply(f, p) ==
  IF f = "zero" THEN [num |-> 0, denSq |-> 1]
  ELSE IF f = "one" THEN [num |-> 1, denSq |-> 1]
  ELSE IF f = "coord" THEN [num |-> p[1] + p[2], denSq |-> Unit * Unit]
  ELSE dotgradu_n(p)

(* ------------------------------- inputs -------------------------------- *)

Ops == {"G", "gradG", "Psi", "PSL", "PDL", "Jstar", "stab_pointEval"}

\* points the kernel is called at directly: the same point twice, points of
\* the unit square, and a pair at distance 5 with difference (3,4)
KernelPoints == {<<0, 0>>, half, <<Unit, 0>>, <<3 * Unit, 4 * Unit>>}

\* points Psi is called at directly: a lattice over the unit square
PsiPoints ==
  {<<i * (Unit \div 8), j * (Unit \div 8)>> : i \in 0..8, j \in 0..8}

\* target points x: the centre, the barycentre of the lower triangle of
\* TwoTriaMesh, the midpoint of the bottom side, a point near a corner
TargetPoints ==
  {half, <<(2 * Unit) \div 3, Unit \div 3>>, <<Unit \div 2, 0>>,
   <<Unit \div 4, Unit \div 4>>}

\* what an uninitialized double may hold
UninitDouble == {g * FP : g \in 0..MaxGarbage}

\* what an uninitialized Eigen::Vector2d and Eigen::VectorXd(1) may hold
Uninit ==
  {[gradPsi |-> <<a, -a>>, laplPsi |-> b] : a \in UninitDouble, b \in UninitDouble}

NoLeftover == [gradPsi |-> <<0, 0>>, laplPsi |-> 0]

NotReturned == [returned |-> FALSE]

Returned(v) == [returned |-> TRUE, value |-> v]

(* -------------------------------- state -------------------------------- *)

VARIABLES
  op,        \* the function invoked
  mesh,      \* argument: the mesh (of fe_space)
  fn,        \* argument: the functor v or u
  x,         \* argument: the point x
  y,         \* argument: the point y
  pc,        \* "start", "loop", "done" or "aborted"
  todo,      \* entities the loop has not visited yet
  val,       \* the accumulator PSLval / PDLval / val
  ret,       \* what the invocation returned to its caller
  uninit,    \* content of the storage the caller's gradPsi, laplPsi occupy
  caller,    \* the caller's gradPsi and laplPsi after the call of Psi
  callee,    \* Psi's own gradPsi and laplPsi when it returned
  cerr,      \* what was written to std::cerr
  trace,     \* per visited entity, the values the loop body computed
  run,       \* 1 for the first invocation, 2 for the repeated one
  first      \* outcome of the first invocation, once repeated

vars ==
  <<op, mesh, fn, x, y, pc, todo, val, ret, uninit, caller, callee, cerr,
    trace, run, first>>

inputs == <<op, mesh, fn, x, y>>

\* (x - half).norm() <= 0.25, compared exactly on the squares
Admitted(p) == 16 * NormSq(Sub(p, half)) <= Unit * Unit

Fresh ==
  /\ pc = "start"
  /\ todo = {}
  /\ val = EmptyBag
  /\ ret = NotReturned
  /\ caller = uninit
  /\ callee = NoLeftover
  /\ cerr = <<>>
  /\ trace = {}

Init ==
  /\ op \in Ops
  /\ IF op \in {"G", "gradG"}
       THEN /\ x \in KernelPoints /\ y \in KernelPoints
            /\ mesh = TwoTriaMesh /\ fn = "one" /\ uninit = NoLeftover
     ELSE IF op = "Psi"
       THEN /\ y \in PsiPoints /\ uninit \in Uninit
            /\ x = half /\ mesh = TwoTriaMesh /\ fn = "one"
     ELSE IF op \in {"PSL", "PDL"}
       THEN /\ mesh \in Meshes /\ x \in TargetPoints
            /\ fn \in {"one", "coord", "dotgradu_n"}
            /\ y = half /\ uninit = NoLeftover
     ELSE /\ mesh \in Meshes /\ x \in TargetPoints
          /\ fn \in {"zero", "one", "coord"}
          /\ uninit \in Uninit /\ y = half
  /\ Fresh
  /\ run = 1
  /\ first = NotReturned

(* ------------------------------- actions ------------------------------- *)

\* G without its assertion
G_assert_removed(a, b) == TRUE

\* LF_ASSERT_MSG(x != y, ...) in G
G_assert(a, b) == a # b

\* LF_ASSERT_MSG(x != y, ...) in gradG
gradG_assert(a, b) == a # b

\* val + t for a sum kept as the bag of its non-zero terms
AddTerm(sum, t, isZero) == IF isZero THEN sum ELSE sum (+) SetToBag({t})

\* log(1) = 0
GIsZero(g) == g.logNormSq = Unit * Unit

\* double G(x, y)
G_call ==
  /\ op = "G" /\ pc = "start"
  /\ IF G_assert(x, y)
       THEN /\ ret' = Returned(G(x, y))
            /\ pc' = "done"
       ELSE /\ pc' = "aborted"
            /\ UNCHANGED ret
  /\ UNCHANGED <<inputs, todo, val, uninit, caller, callee, cerr, trace, run, first>>

\* Eigen::Vector2d gradG(x, y)
gradG_call ==
  /\ op = "gradG" /\ pc = "start"
  /\ IF gradG_assert(x, y)
       THEN /\ ret' = Returned(gradG(x, y))
            /\ pc' = "done"
       ELSE /\ pc' = "aborted"
            /\ UNCHANGED ret
  /\ UNCHANGED <<inputs, todo, val, uninit, caller, callee, cerr, trace, run, first>>

\* double Psi(y, gradPsi, laplPsi) called with the caller's gradPsi, laplPsi:
\* both are passed by value, the caller's variables keep their content
Psi_call ==
  /\ op = "Psi" /\ pc = "start"
  /\ LET r == Psi(y, caller.gradPsi, caller.laplPsi)
     IN /\ ret' = Returned(r.Psi_xy)
        /\ callee' = [gradPsi |-> r.gradPsi, laplPsi |-> r.laplPsi]
  /\ pc' = "done"
  /\ UNCHANGED <<inputs, todo, val, uninit, caller, cerr, trace, run, first>>

\* PSL / PDL up to the loop: PSLval = 0.0, the boundary flags, the edge range
BoundaryPotential_begin ==
  /\ op \in {"PSL", "PDL"} /\ pc = "start"
  /\ val' = EmptyBag
  /\ todo' = Entities(mesh, 1)
  /\ pc' = "loop"
  /\ UNCHANGED <<inputs, ret, uninit, caller, callee, cerr, trace, run, first>>

\* one pass of the loop of PSL over the edge e
PSL_edge(e) ==
  /\ op = "PSL" /\ pc = "loop" /\ e \in todo
  /\ IF ~flagEntitiesOnBoundary(mesh, e)
       THEN /\ todo' = todo \ {e}
            /\ UNCHANGED <<pc, val, trace>>
     ELSE LET midpoint == Midpoint(e)
              t == [v |-> Apply(fn, midpoint), G |-> G(x, midpoint),
                    vol |-> Volume(e)]
              n == IF fn = "dotgradu_n" THEN dotgradu_n_n(midpoint)
                                        ELSE <<0, 0>>
          IN IF G_assert(x, midpoint)
               THEN /\ val' = AddTerm(val, t, t.v.num = 0 \/ GIsZero(t.G))
                    /\ trace' = trace \cup
                         {[ent |-> e, midpoint |-> midpoint, n |-> n, term |-> t]}
                    /\ todo' = todo \ {e}
                    /\ UNCHANGED pc
               ELSE /\ pc' = "aborted"
                    /\ UNCHANGED <<todo, val, trace>>
  /\ UNCHANGED <<inputs, ret, uninit, caller, callee, cerr, run, first>>

\* one pass of the loop of PDL over the edge e
PDL_edge(e) ==
  /\ op = "PDL" /\ pc = "loop" /\ e \in todo
  /\ IF ~flagEntitiesOnBoundary(mesh, e)
       THEN /\ todo' = todo \ {e}
            /\ UNCHANGED <<pc, val, trace>>
     ELSE LET midpoint == Midpoint(e)
              n == PDL_n(midpoint)
              t == [v |-> Apply(fn, midpoint), gradG |-> gradG(x, midpoint),
                    n |-> n, vol |-> Volume(e)]
          IN IF gradG_assert(x, midpoint)
               THEN /\ val' = AddTerm(val, t,
                                      t.v.num = 0 \/ Dot(t.gradG.vec, n) = 0)
                    /\ trace' = trace \cup
                         {[ent |-> e, midpoint |-> midpoint, n |-> n, term |-> t]}
                    /\ todo' = todo \ {e}
                    /\ UNCHANGED pc
               ELSE /\ pc' = "aborted"
                    /\ UNCHANGED <<todo, val, trace>>
  /\ UNCHANGED <<inputs, ret, uninit, caller, callee, cerr, run, first>>

\* return PSLval / return PDLval / return val (and stab_pointEval's return res
\* after res = Jstar(...))
Sum_return ==
  /\ pc = "loop" /\ todo = {}
  /\ ret' = Returned(val)
  /\ pc' = "done"
  /\ UNCHANGED <<inputs, todo, val, uninit, caller, callee, cerr, trace, run, first>>

\* Jstar up to the loop: val = 0.0, the quadrature rule, the cell range
Jstar_begin ==
  /\ op = "Jstar" /\ pc = "start"
  /\ val' = EmptyBag
  /\ todo' = Entities(mesh, 0)
  /\ pc' = "loop"
  /\ UNCHANGED <<inputs, ret, uninit, caller, callee, cerr, trace, run, first>>

\* (2 * gradG.dot(gradPsi) + G * laplPsi) = 0 exactly
BracketIsZero(t) ==
  Dot(t.gradG.vec, t.gradPsi) = 0 /\ (t.laplPsi = 0 \/ GIsZero(t.G))

\* one pass of the loop of Jstar over the cell c (its single quadrature
\* point): gradPsi and laplPsi are declared without initialization, passed
\* to Psi, then read
Jstar_cell(c) ==
  /\ op \in {"Jstar", "stab_pointEval"} /\ pc = "loop" /\ c \in todo
  /\ LET zeta == Global(c)
         r == Psi(zeta, uninit.gradPsi, uninit.laplPsi)
         t == [w |-> QuadWeight, u |-> Apply(fn, zeta),
               gradG |-> gradG(x, zeta), gradPsi |-> uninit.gradPsi,
               G |-> G(x, zeta), laplPsi |-> uninit.laplPsi,
               gram_det |-> IntegrationElement(c)]
     IN IF Cardinality(c) = 3 /\ gradG_assert(x, zeta) /\ G_assert(x, zeta)
          THEN /\ caller' = uninit
               /\ callee' = [gradPsi |-> r.gradPsi, laplPsi |-> r.laplPsi]
               /\ val' = AddTerm(val, t, t.u.num = 0 \/ BracketIsZero(t))
               /\ trace' = trace \cup {[ent |-> c, zeta |-> zeta, term |-> t]}
               /\ todo' = todo \ {c}
               /\ UNCHANGED pc
          ELSE /\ pc' = "aborted"
               /\ UNCHANGED <<todo, val, caller, callee, trace>>
  /\ UNCHANGED <<inputs, ret, uninit, cerr, run, first>>

\* stab_pointEval up to the call of Jstar, or to its return when x is
\* outside the disk: res = 0.0, the message on std::cerr, return res
stab_pointEval_call ==
  /\ op = "stab_pointEval" /\ pc = "start"
  /\ IF Admitted(x)
       THEN /\ val' = EmptyBag
            /\ todo' = Entities(mesh, 0)
            /\ pc' = "loop"
            /\ UNCHANGED <<ret, cerr>>
       ELSE /\ cerr' = Append(cerr, "The point does not fulfill the assumptions")
            /\ ret' = Returned(EmptyBag)
            /\ pc' = "done"
            /\ UNCHANGED <<todo, val>>
  /\ UNCHANGED <<inputs, uninit, caller, callee, trace, run, first>>

\* the caller invokes the same function again with the same arguments
Reinvoke ==
  /\ pc \in {"done", "aborted"} /\ run = 1
  /\ first' = [pc |-> pc, ret |-> ret]
  /\ run' = 2
  /\ IF op \in {"Psi", "Jstar", "stab_pointEval"}
       THEN uninit' \in Uninit
       ELSE UNCHANGED uninit
  /\ pc' = "start"
  /\ todo' = {}
  /\ val' = EmptyBag
  /\ ret' = NotReturned
  /\ caller' = uninit'
  /\ callee' = NoLeftover
  /\ cerr' = <<>>
  /\ trace' = {}
  /\ UNCHANGED inputs

Next ==
  \/ G_call
  \/ gradG_call
  \/ Psi_call
  \/ BoundaryPotential_begin
  \/ \E e \in todo : PSL_edge(e)
  \/ \E e \in todo : PDL_edge(e)
  \/ Sum_return
  \/ Jstar_begin
  \/ \E c \in todo : Jstar_cell(c)
  \/ stab_pointEval_call
  \/ Reinvoke

Spec == Init /\ [][Next]_vars

TypeOK ==
  /\ op \in Ops
  /\ pc \in {"start", "loop", "done", "aborted"}
  /\ run \in {1, 2}

(* ------------------------------ properties ----------------------------- *)

JstarOps == {"Jstar", "stab_pointEval"}

RECURSIVE SumPoints(_)
SumPoints(S) ==
  IF S = {} THEN <<0, 0>>
  ELSE LET p == CHOOSE q \in S : TRUE
           r == SumPoints(S \ {p})
       IN <<p[1] + r[1], p[2] + r[2]>>

\* arithmetic mean of the corner points of an edge or a cell
Mean(S) ==
  <<SumPoints(S)[1] \div Cardinality(S), SumPoints(S)[2] \div Cardinality(S)>>

\* the sides of the unit square a point lies on
Sides(p) ==
  {sd \in {"bottom", "right", "top", "left"} :
     \/ sd = "bottom" /\ p[2] = 0
     \/ sd = "right" /\ p[1] = Unit
     \/ sd = "top" /\ p[2] = Unit
     \/ sd = "left" /\ p[1] = 0}

OutwardNormal(sd) ==
  IF sd = "bottom" THEN <<0, -1>>
  ELSE IF sd = "right" THEN <<1, 0>>
  ELSE IF sd = "top" THEN <<0, 1>>
  ELSE <<-1, 0>>

\* the edges of the mesh that lie on a side of the unit square
SquareBoundaryEdges(m) ==
  {e \in Entities(m, 1) :
     \E sd \in {"bottom", "right", "top", "left"} : \A p \in e : sd \in Sides(p)}

\* length of an axis-parallel edge
SideLength(e) ==
  LET a == CHOOSE p \in e : TRUE
      b == CHOOSE p \in e : p # a
  IN Abs(a[1] - b[1]) + Abs(a[2] - b[2])

\* the cells whose quadrature point is px
CellsAt(m, px) == {c \in Entities(m, 0) : Mean(c) = px}

\* C1: for x with ||x - (0.5,0.5)|| > 0.25, what stab_pointEval hands back
\* differs from the plain number 0.0 that a successful evaluation returns.
C1_FailureDistinctFromZero ==
  (op = "stab_pointEval" /\ pc = "done" /\ ~Admitted(x))
    => ret # Returned(EmptyBag)

\* a successful evaluation whose numeric result is zero (u = 0)
C1_SuccessfulZero ==
  op = "stab_pointEval" /\ pc = "done" /\ Admitted(x) /\ ret = Returned(EmptyBag)

\* C2: for x admitted by the driver, a run of Jstar never reaches the
\* coincidence assertion of G / gradG (no quadrature point equals x).
C2_KernelNeverAtSingularity ==
  (op \in JstarOps /\ Admitted(x)) => pc # "aborted"

\* C3: after a call of Psi the caller's gradPsi and laplPsi are the gradient
\* and the Laplacian Psi computed, in the zone of the returned value.
C3_CallerSeesPsiOutputs ==
  ((op = "Psi" /\ pc = "done") \/ (op \in JstarOps /\ trace # {}))
    => /\ caller.gradPsi = callee.gradPsi
       /\ caller.laplPsi = callee.laplPsi

\* the term of the cell c in the sum Jstar is to return
JstarExpectedTerm(c, f, px) ==
  LET p == Mean(c)
      r == Psi(p, <<0, 0>>, 0)
  IN [w |-> QuadWeight, u |-> Apply(f, p), gradG |-> gradG(px, p),
      gradPsi |-> r.gradPsi, G |-> G(px, p), laplPsi |-> r.laplPsi,
      gram_det |-> IntegrationElement(c)]

RECURSIVE JstarExpected(_, _, _)
JstarExpected(cells, f, px) ==
  IF cells = {} THEN EmptyBag
  ELSE LET c == CHOOSE d \in cells : TRUE
           t == JstarExpectedTerm(c, f, px)
       IN AddTerm(JstarExpected(cells \ {c}, f, px), t,
                  t.u.num = 0 \/ BracketIsZero(t))

\* C4: Jstar returns minus the sum over every cell, once, of
\* w * Jacobian * u(p) * [2 gradG(x,p).gradPsi(p) + G(x,p) laplPsi(p)] with
\* gradPsi(p), laplPsi(p) those of Psi at p; a cell whose quadrature point is
\* in the inner or outer zone contributes exactly zero.
C4_JstarIsTheCellSum ==
  (op = "Jstar" /\ pc = "done")
    => /\ ret.value = JstarExpected(Entities(mesh, 0), fn, x)
       /\ {r.ent : r \in trace} = Entities(mesh, 0)
       /\ \A r \in trace :
            PsiZone(r.zeta) \in {"inner", "outer"} => BracketIsZero(r.term)

\* C5: gradG(x, y) = -(1/(2 pi ||x-y||^2)) (x - y) for x # y: the difference
\* vector is divided by the squared distance.  With the difference in grid
\* units, (||x-y||^2)^2 is NormSq^2 / Unit^4 and the square of the divisor
\* the code used is denSq / Unit^2.
C5_GradGDividesBySquaredDistance ==
  (op = "gradG" /\ pc = "done")
    => /\ ret.value.coefNum = -1
       /\ ret.value.vec = Sub(x, y)
       /\ ret.value.denSq * Unit * Unit = NormSq(Sub(x, y)) * NormSq(Sub(x, y))

\* C6: G and gradG called with x = y never return a value, and neither do
\* PSL, PDL and Jstar when x is a quadrature point of theirs: the entity whose
\* quadrature point is x is never passed.
C6_SingularEvaluationAborts ==
  /\ (op \in {"G", "gradG"} /\ x = y) => ret = NotReturned
  /\ (op \in {"PSL", "PDL"}
        /\ \E e \in SquareBoundaryEdges(mesh) : Mean(e) = x)
       => /\ ret = NotReturned
          /\ pc = "loop" =>
               \A e \in SquareBoundaryEdges(mesh) : Mean(e) = x => e \in todo
  /\ (op \in JstarOps /\ CellsAt(mesh, x) # {} /\ (op = "Jstar" \/ Admitted(x)))
       => /\ ret = NotReturned
          /\ pc = "loop" => CellsAt(mesh, x) \subseteq todo

\* Jstar stopped at the cell whose quadrature point is x, after other cells
C6_Witness ==
  op = "Jstar" /\ pc = "aborted" /\ trace # {} /\ CellsAt(mesh, x) # {}

\* C7: the normal chosen from the midpoint of a boundary edge, by PDL and by
\* dotgradu_n, is the outward unit normal of the one side of the square the
\* midpoint lies on.
C7_NormalIsOutward ==
  (op = "PDL" \/ (op = "PSL" /\ fn = "dotgradu_n"))
    => \A r \in trace :
         {OutwardNormal(sd) : sd \in Sides(r.midpoint)} = {r.n}

\* PDL finished on a mesh, having chosen each of the four normals
C7_Witness ==
  /\ op = "PDL" /\ pc = "done"
  /\ {r.n : r \in trace} = {<<0, -1>>, <<1, 0>>, <<0, 1>>, <<-1, 0>>}

C9_PsiRangeAndZones ==
  (op = "Psi" /\ pc = "done")
    => LET r2 == NormSq(Sub(y, half))
           inner == 8 * r2 <= Unit * Unit
           outer == 4 * r2 >= Unit * Unit
           annulus == 8 * r2 > Unit * Unit /\ 4 * r2 < Unit * Unit
       IN /\ ret.value \in 0..FP
          /\ inner => ret.value = 0
          /\ outer => ret.value = FP
          /\ Cardinality({z \in {"inner", "outer", "annulus"} :
                            \/ z = "inner" /\ inner
                            \/ z = "outer" /\ outer
                            \/ z = "annulus" /\ annulus}) = 1
          /\ PsiZone(y) = "inner" <=> inner
          /\ PsiZone(y) = "outer" <=> outer

\* Psi returned a value strictly between 0 and 1 for a point of the annulus
C9_Witness ==
  /\ op = "Psi" /\ pc = "done"
  /\ PsiZone(y) = "annulus"
  /\ ret.value > 0 /\ ret.value < FP

\* the term of the boundary edge e in the sum PSL is to return
PSLExpectedTerm(e, f, px) ==
  [v |-> Apply(f, Mean(e)), G |-> G(px, Mean(e)), vol |-> SideLength(e)]

RECURSIVE PSLExpected(_, _, _)
PSLExpected(edges, f, px) ==
  IF edges = {} THEN EmptyBag
  ELSE LET e == CHOOSE d \in edges : TRUE
           t == PSLExpectedTerm(e, f, px)
       IN AddTerm(PSLExpected(edges \ {e}, f, px), t,
                  t.v.num = 0 \/ GIsZero(t.G))

\* C10: PSL returns the sum over exactly the boundary edges, each once, of
\* v(m) * G(x, m) * length with m the mean of the two corners, in whatever
\* order the edges were visited; interior edges contribute nothing.
C10_PSLIsTheBoundarySum ==
  (op = "PSL" /\ pc = "done")
    => /\ ret.value = PSLExpected(SquareBoundaryEdges(mesh), fn, x)
       /\ {r.ent : r \in trace} = SquareBoundaryEdges(mesh)
       /\ Cardinality(trace) = Cardinality(SquareBoundaryEdges(mesh))

\* PSL returned a non-zero sum on a mesh with interior edges
C10_Witness ==
  /\ op = "PSL" /\ pc = "done" /\ fn = "coord"
  /\ ret.value # EmptyBag
  /\ Entities(mesh, 1) \ SquareBoundaryEdges(mesh) # {}

====
